---- MODULE Spec2Model ----
(***************************************************************************)
(* Model of karton-file-detection (src/src/file_detection.py): the class   *)
(* FileDetection with its pure helpers normalize, get_tags_from_die,       *)
(* extract_json_output_from_die, extract_json_output_from_trid and the     *)
(* entry point process().                                                  *)
(*                                                                         *)
(* A Python str is a sequence of one-character strings.  A parsed JSON     *)
(* value is tagged: [str |-> chars], [arr |-> sequence of values],         *)
(* [obj |-> function from key (chars) to value].                           *)
(***************************************************************************)
EXTENDS Integers, Sequences, FiniteSets, TLC

VARIABLES
    arg,          \* argument of the helper under test
    ret,          \* sequence of the results the helper returned so far
    stage,        \* position of the helper harness
    pc,           \* position of process() in the task it handles
    task,         \* the task: the sample and what each tool does on it
    held,         \* the temporary file of the sample exists
    err,          \* the exception process() is raising or has raised
    calls,        \* the detectors invoked for this task, in order
    die_stdout,   \* die_data of process(): the signature detector's output
    die_json,     \* locals of process()
    trid_stdout,  \* trid_data of process(): the heuristic detector's output
    trid_json,
    magika_json,
    log,          \* the lines self.log wrote for this task
    outbox        \* the tasks sent with send_task for this task

helperVars == <<arg, ret, stage>>

procVars ==
    <<pc, task, held, err, calls, die_stdout, die_json, trid_stdout, trid_json,
      magika_json, log, outbox>>

vars == <<helperVars, procVars>>

NoError == [at |-> "none", exc |-> "none"]

NoTask == [sample |-> [sha256 |-> "", name |-> ""]]

\* the service constructed, no task consumed yet
ProcIdle ==
    /\ pc = "idle"
    /\ task = NoTask
    /\ held = FALSE
    /\ err = NoError
    /\ calls = <<>>
    /\ die_stdout = <<>>
    /\ die_json = <<>>
    /\ trid_stdout = <<>>
    /\ trid_json = <<>>
    /\ magika_json = <<>>
    /\ log = <<>>
    /\ outbox = <<>>

(***************************************************************************)
(* Strings                                                                 *)
(***************************************************************************)
UpperCase ==
    <<"A","B","C","D","E","F","G","H","I","J","K","L","M",
      "N","O","P","Q","R","S","T","U","V","W","X","Y","Z">>

LowerCase ==
    <<"a","b","c","d","e","f","g","h","i","j","k","l","m",
      "n","o","p","q","r","s","t","u","v","w","x","y","z">>

DigitChars == <<"0","1","2","3","4","5","6","7","8","9">>

IsDigit(c) == \E i \in DOMAIN DigitChars : DigitChars[i] = c

\* int(c) of one digit
digit_value(c) == (CHOOSE i \in DOMAIN DigitChars : DigitChars[i] = c) - 1

IsUpper(c) == \E i \in DOMAIN UpperCase : UpperCase[i] = c

IsLower(c) == \E i \in DOMAIN LowerCase : LowerCase[i] = c

\* str.lower() on one character
lower_char(c) ==
    IF IsUpper(c)
    THEN LowerCase[CHOOSE i \in DOMAIN UpperCase : UpperCase[i] = c]
    ELSE c

\* str.upper() on one character
upper_char(c) ==
    IF IsLower(c)
    THEN UpperCase[CHOOSE i \in DOMAIN LowerCase : LowerCase[i] = c]
    ELSE c

\* str.lower()
lower(s) == [i \in 1..Len(s) |-> lower_char(s[i])]

\* s[from:] (1-based, inclusive)
Drop(s, from) == SubSeq(s, from, Len(s))

\* str.replace(old, new): left to right, non-overlapping, old non-empty
RECURSIVE replace(_, _, _)
replace(s, old, new) ==
    IF Len(s) < Len(old) THEN s
    ELSE IF SubSeq(s, 1, Len(old)) = old
         THEN new \o replace(Drop(s, Len(old) + 1), old, new)
         ELSE <<Head(s)>> \o replace(Tail(s), old, new)

\* a variant of normalize that forgets the final replace(" ", "-")
normalize_keeps_spaces(name) == replace(lower(name), <<":", " ">>, <<":">>)

\* FileDetection.normalize
normalize(name) ==
    replace(replace(lower(name), <<":", " ">>, <<":">>), <<" ">>, <<"-">>)

(***************************************************************************)
(* Harness for normalize: every string over NormAlphabet up to MaxLen      *)
(***************************************************************************)
MaxLen == 4

NormAlphabet == {"A", "a", ":", " ", "-"}

NormStrings == UNION {[1..k -> NormAlphabet] : k \in 0..MaxLen}

InitNormalize ==
    /\ arg \in NormStrings
    /\ ret = <<>>
    /\ stage = "arg"
    /\ ProcIdle

\* r = normalize(s)
CallNormalize ==
    /\ stage = "arg"
    /\ ret' = <<normalize(arg)>>
    /\ stage' = "once"
    /\ UNCHANGED <<arg, procVars>>

\* r2 = normalize(r)
CallNormalizeAgain ==
    /\ stage = "once"
    /\ ret' = Append(ret, normalize(ret[1]))
    /\ stage' = "twice"
    /\ UNCHANGED <<arg, procVars>>

NextNormalize == CallNormalize \/ CallNormalizeAgain

SpecNormalize == InitNormalize /\ [][NextNormalize]_vars

HasSpace(s) == \E i \in 1..Len(s) : s[i] = " "

HasUpper(s) == \E i \in 1..Len(s) : IsUpper(s[i])

\* C8: normalize is idempotent, normalize(normalize(s)) = normalize(s), and
\* its result is lower-case and never contains a space.
C8_NormalizeIdempotent ==
    /\ stage \in {"once", "twice"} => ~HasSpace(ret[1]) /\ ~HasUpper(ret[1])
    /\ stage = "twice" => ret[2] = ret[1]

\* a string with ": " and a further space, normalized twice, the first
\* result differing from the argument
C8_Witness ==
    /\ stage = "twice"
    /\ arg = <<"A", ":", " ", " ">>
    /\ ret[1] = <<"a", ":", "-">>
    /\ ret[2] = ret[1]

(***************************************************************************)
(* String literals of the source and of the sample inputs                  *)
(***************************************************************************)
K_detects == <<"d","e","t","e","c","t","s">>

K_values == <<"v","a","l","u","e","s">>

K_type == <<"t","y","p","e">>

K_name == <<"n","a","m","e">>

K_filetype == <<"f","i","l","e","t","y","p","e">>

S_Unknown == <<"U","n","k","n","o","w","n">>

S_unknown == <<"u","n","k","n","o","w","n">>

S_malware == <<"m","a","l","w","a","r","e">>

S_Malware == <<"M","a","l","w","a","r","e">>

S_Packer == <<"P","a","c","k","e","r">>

S_packer == <<"p","a","c","k","e","r">>

S_UPX == <<"U","P","X">>

S_upx == <<"u","p","x">>

S_Emotet == <<"E","m","o","t","e","t">>

S_OpSys == <<"O","p",":"," ","S","y","s">>

S_Win32 == <<"W","i","n"," ","3","2">>

S_PE == <<"P","E">>

\* parsed JSON values: str, list, dict, int, and the literals
JStr(s) == [str |-> s]

JArr(a) == [arr |-> a]

JObj(f) == [obj |-> f]

JNum(n) == [num |-> n]

JLit(l) == [lit |-> l]

IsObj(v) == DOMAIN v = {"obj"}

IsArr(v) == DOMAIN v = {"arr"}

IsStr(v) == DOMAIN v = {"str"}

\* one entry of a finding's values: {"type": t, "name": n}
Value(t, n) == JObj((K_type :> JStr(t)) @@ (K_name :> JStr(n)))

\* {"name": n}: a value without type
ValueNoType(n) == JObj(K_name :> JStr(n))

\* {"type": t}: a value without name
ValueNoName(t) == JObj(K_type :> JStr(t))

\* one entry of detects: {"values": [...]}
Finding(values) == JObj(K_values :> JArr(values))

\* {"filetype": "PE"}: a finding without values
FindingNoValues == JObj(K_filetype :> JStr(S_PE))

(***************************************************************************)
(* get_tags_from_die                                                       *)
(***************************************************************************)
\* lines 79-87 for one packer, as the tags it adds; a variant that has
\* lost the malware branch
tags_of_packer_no_malware(packer) ==
    IF K_type \in DOMAIN packer.obj /\ K_name \in DOMAIN packer.obj
    THEN LET packer_type == normalize(packer.obj[K_type].str)
             packer_name == normalize(packer.obj[K_name].str)
         IN  IF packer_type = S_unknown \/ packer_name = S_unknown
             THEN {}
             ELSE {packer_type \o <<":">> \o packer_name}
    ELSE {}

\* lines 79-87 for one packer, as the set of tags it adds
tags_of_packer(packer) ==
    IF K_type \in DOMAIN packer.obj /\ K_name \in DOMAIN packer.obj
    THEN LET packer_type == normalize(packer.obj[K_type].str)
             packer_name == normalize(packer.obj[K_name].str)
         IN  IF packer_type = S_unknown \/ packer_name = S_unknown
             THEN {}
             ELSE IF packer_type = S_malware /\ packer_name # S_unknown
                  THEN {packer_name}
                  ELSE {packer_type \o <<":">> \o packer_name}
    ELSE {}

\* the inner loop, lines 78-87: tags after the packers from index j on
RECURSIVE tags_of_values(_, _, _)
tags_of_values(values, j, tags) ==
    IF j > Len(values) THEN tags
    ELSE tags_of_values(values, j + 1, tags \cup tags_of_packer(values[j]))

\* the outer loop, lines 74-87: tags after the findings from index i on
RECURSIVE tags_of_findings(_, _, _)
tags_of_findings(die_data, i, tags) ==
    IF i > Len(die_data) THEN tags
    ELSE LET detected == die_data[i]
         IN  IF K_values \notin DOMAIN detected.obj
             THEN tags_of_findings(die_data, i + 1, tags)
             ELSE tags_of_findings(die_data, i + 1,
                      tags_of_values(detected.obj[K_values].arr, 1, tags))

\* FileDetection.get_tags_from_die.  The source returns list(tags) of a set:
\* a list without duplicates in an unspecified order, modelled as the set.
get_tags_from_die(die_data) == tags_of_findings(die_data, 1, {})

(***************************************************************************)
(* Sample findings                                                         *)
(***************************************************************************)
F_PackerUPX == Finding(<<Value(S_Packer, S_UPX)>>)

F_packerupx == Finding(<<Value(S_packer, S_upx)>>)

F_MalwareEmotet == Finding(<<Value(S_Malware, S_Emotet)>>)

F_UnknownUPX == Finding(<<Value(S_Unknown, S_UPX)>>)

F_PackerUnknown == Finding(<<Value(S_Packer, S_Unknown)>>)

F_OpSysWin32 == Finding(<<Value(S_OpSys, S_Win32)>>)

F_Two == Finding(<<Value(S_Unknown, S_UPX), Value(S_Malware, S_Emotet)>>)

F_NoType == Finding(<<ValueNoType(S_UPX)>>)

F_NoName == Finding(<<ValueNoName(S_Packer), Value(S_Malware, S_Unknown)>>)

F_Empty == Finding(<<>>)

Reverse(s) == [i \in 1..Len(s) |-> s[Len(s) + 1 - i]]

SeqsUpTo(S, n) == UNION {[1..k -> S] : k \in 0..n}

(***************************************************************************)
(* Harness for get_tags_from_die: every list of at most MaxFindings sample *)
(* findings, called on the list and on the reversed list                   *)
(***************************************************************************)
MaxFindings == 2

FindingPool ==
    {F_PackerUPX, F_packerupx, F_MalwareEmotet, F_UnknownUPX, F_PackerUnknown,
     F_OpSysWin32, F_Two, F_NoType, F_NoName, F_Empty, FindingNoValues}

InitTags ==
    /\ arg \in SeqsUpTo(FindingPool, MaxFindings)
    /\ ret = <<>>
    /\ stage = "arg"
    /\ ProcIdle

\* tags = get_tags_from_die(die_data)
CallGetTags ==
    /\ stage = "arg"
    /\ ret' = <<get_tags_from_die(arg)>>
    /\ stage' = "once"
    /\ UNCHANGED <<arg, procVars>>

\* tags2 = get_tags_from_die(die_data[::-1])
CallGetTagsReversed ==
    /\ stage = "once"
    /\ ret' = Append(ret, get_tags_from_die(Reverse(arg)))
    /\ stage' = "twice"
    /\ UNCHANGED <<arg, procVars>>

NextTags == CallGetTags \/ CallGetTagsReversed

SpecTags == InitTags /\ [][NextTags]_vars

\* the values of a list of findings that have both type and name
TaggableValues(die_data) ==
    {v \in UNION {{f.obj[K_values].arr[j] : j \in DOMAIN f.obj[K_values].arr} :
                    f \in {die_data[i] : i \in {k \in DOMAIN die_data :
                                            K_values \in DOMAIN die_data[k].obj}}} :
        K_type \in DOMAIN v.obj /\ K_name \in DOMAIN v.obj}

NormType(v) == normalize(v.obj[K_type].str)

NormName(v) == normalize(v.obj[K_name].str)

\* the tags the derivation rule gives a list of findings
RuleTags(die_data) ==
    {NormName(v) :
        v \in {w \in TaggableValues(die_data) :
                 NormType(w) = S_malware /\ NormName(w) # S_unknown}}
    \cup
    {NormType(v) \o <<":">> \o NormName(v) :
        v \in {w \in TaggableValues(die_data) :
                 /\ NormType(w) # S_malware
                 /\ NormType(w) # S_unknown
                 /\ NormName(w) # S_unknown}}

\* C5: get_tags_from_die returns exactly the tags of the derivation rule
\* (nothing for an unknown type or name, the name alone for malware, else
\* type:name; nothing for findings without values or values without type or
\* name), and the same tags for the findings in reverse order.
C5_TagsFollowRule ==
    /\ stage \in {"once", "twice"} => ret[1] = RuleTags(arg)
    /\ stage = "twice" => ret[2] = ret[1]

\* Malware/Emotet gives "emotet", Packer/UPX and packer/upx give the one tag
\* "packer:upx", in either order
C5_Witness ==
    /\ stage = "twice"
    /\ arg \in {<<F_Two, F_PackerUPX>>, <<F_MalwareEmotet, F_packerupx>>}
    /\ ret[1] = {<<"e","m","o","t","e","t">>,
                 <<"p","a","c","k","e","r",":","u","p","x">>}
    /\ ret[2] = ret[1]

(***************************************************************************)
(* json.loads, on the grammar of the detector's output: objects, arrays,   *)
(* strings without escapes, non-negative integers, true/false/null         *)
(***************************************************************************)
Quote == "\""

WhiteSpace == {" ", "\n", "\t", "\r"}

ParseFail == [ok |-> FALSE, val |-> JLit("null"), next |-> 0]

ParseOk(v, n) == [ok |-> TRUE, val |-> v, next |-> n]

RECURSIVE skip_ws(_, _)
skip_ws(s, i) ==
    IF i <= Len(s) /\ s[i] \in WhiteSpace THEN skip_ws(s, i + 1) ELSE i

\* at an opening quote at i: the index of the closing quote, or 0 when the
\* string is unterminated or holds a control character or an escape
RECURSIVE closing_quote(_, _)
closing_quote(s, j) ==
    IF j > Len(s) THEN 0
    ELSE IF s[j] = Quote THEN j
    ELSE IF s[j] \in {"\n", "\t", "\r", "\\"} THEN 0
    ELSE closing_quote(s, j + 1)

parse_string(s, i) ==
    LET j == closing_quote(s, i + 1)
    IN  IF j = 0 THEN ParseFail ELSE ParseOk(JStr(SubSeq(s, i + 1, j - 1)), j + 1)

\* the digits from i on, as a number
RECURSIVE parse_digits(_, _, _)
parse_digits(s, i, n) ==
    IF i <= Len(s) /\ IsDigit(s[i])
    THEN parse_digits(s, i + 1, 10 * n + digit_value(s[i]))
    ELSE ParseOk(JNum(n), i)

parse_number(s, i) ==
    IF s[i] = "0" THEN ParseOk(JNum(0), i + 1) ELSE parse_digits(s, i, 0)

Literals == {<<"n","u","l","l">>, <<"t","r","u","e">>, <<"f","a","l","s","e">>}

parse_literal(s, i) ==
    IF \E l \in Literals : SubSeq(s, i, i + Len(l) - 1) = l
    THEN LET l == CHOOSE m \in Literals : SubSeq(s, i, i + Len(m) - 1) = m
         IN  ParseOk(JLit(l), i + Len(l))
    ELSE ParseFail

RECURSIVE parse_value(_, _)
RECURSIVE parse_items(_, _, _, _)
RECURSIVE parse_members(_, _, _, _)

\* the value that starts at i (no leading whitespace)
parse_value(s, i) ==
    IF i > Len(s) THEN ParseFail
    ELSE IF s[i] = Quote THEN parse_string(s, i)
    ELSE IF s[i] = "[" THEN parse_items(s, skip_ws(s, i + 1), <<>>, TRUE)
    ELSE IF s[i] = "{" THEN parse_members(s, skip_ws(s, i + 1), <<>>, TRUE)
    ELSE IF IsDigit(s[i]) THEN parse_number(s, i)
    ELSE parse_literal(s, i)

\* the rest of an array: i is after "[" (first) or after ","
parse_items(s, i, acc, first) ==
    IF i > Len(s) THEN ParseFail
    ELSE IF first /\ s[i] = "]" THEN ParseOk(JArr(acc), i + 1)
    ELSE LET r == parse_value(s, i)
             j == skip_ws(s, r.next)
         IN  IF ~r.ok \/ j > Len(s) THEN ParseFail
             ELSE IF s[j] = ","
                  THEN parse_items(s, skip_ws(s, j + 1), Append(acc, r.val), FALSE)
             ELSE IF s[j] = "]" THEN ParseOk(JArr(Append(acc, r.val)), j + 1)
             ELSE ParseFail

\* the rest of an object: i is after "{" (first) or after ","; a repeated
\* key keeps its last value
parse_members(s, i, acc, first) ==
    IF i > Len(s) THEN ParseFail
    ELSE IF first /\ s[i] = "}" THEN ParseOk(JObj(acc), i + 1)
    ELSE IF s[i] # Quote THEN ParseFail
    ELSE LET k == parse_string(s, i)
             c == skip_ws(s, k.next)
         IN  IF ~k.ok \/ c > Len(s) THEN ParseFail
             ELSE IF s[c] # ":" THEN ParseFail
             ELSE LET r == parse_value(s, skip_ws(s, c + 1))
                      j == skip_ws(s, r.next)
                      acc2 == (k.val.str :> r.val) @@ acc
                  IN  IF ~r.ok \/ j > Len(s) THEN ParseFail
                      ELSE IF s[j] = ","
                           THEN parse_members(s, skip_ws(s, j + 1), acc2, FALSE)
                      ELSE IF s[j] = "}" THEN ParseOk(JObj(acc2), j + 1)
                      ELSE ParseFail

\* json.loads(s): ok is FALSE where it raises JSONDecodeError
json_loads(s) ==
    LET r == parse_value(s, skip_ws(s, 1))
    IN  IF r.ok /\ skip_ws(s, r.next) > Len(s) THEN r ELSE ParseFail

(***************************************************************************)
(* extract_json_output_from_die                                            *)
(***************************************************************************)
\* a line of self.log
LogRecord(level, text, sample) == [level |-> level, text |-> text, sample |-> sample]

\* what a call did: the exception it raised ("none": it returned), the
\* value it returned and the lines it logged
Returned(v, lines) == [raised |-> "none", value |-> v, log |-> lines]

Raised(e) == [raised |-> e, value |-> <<>>, log |-> <<>>]

\* re.search(r"\{.*\}", die_data, re.DOTALL): from the first "{" to the
\* last "}"; <<>> when there is no match
brace_span(die_data) ==
    LET opens == {i \in DOMAIN die_data : die_data[i] = "{"}
        closes == {i \in DOMAIN die_data : die_data[i] = "}"}
    IN  IF opens = {} \/ closes = {} THEN <<>>
        ELSE LET a == CHOOSE i \in opens : \A j \in opens : i <= j
                 b == CHOOSE i \in closes : \A j \in closes : i >= j
             IN  IF a < b THEN SubSeq(die_data, a, b) ELSE <<>>

\* len(x) of a parsed value holding a str, list or dict
py_len(v) ==
    IF IsStr(v) THEN Len(v.str)
    ELSE IF IsArr(v) THEN Len(v.arr)
    ELSE Cardinality(DOMAIN v.obj)

\* lines 125-129 for one detected: "drop", "keep", or the exception raised
die_keep(detected) ==
    IF ~IsObj(detected) THEN "AttributeError"
    ELSE LET values == IF K_values \in DOMAIN detected.obj
                       THEN detected.obj[K_values] ELSE JArr(<<>>)
         IN  IF ~(IsStr(values) \/ IsArr(values) \/ IsObj(values)) THEN "TypeError"
             ELSE IF py_len(values) = 0 THEN "drop"
             ELSE IF py_len(values) # 1 THEN "keep"
             ELSE IF IsStr(values) THEN "TypeError"
             ELSE IF IsObj(values) THEN "KeyError"
             ELSE IF ~IsObj(values.arr[1]) THEN "TypeError"
             ELSE IF K_type \notin DOMAIN values.arr[1].obj THEN "KeyError"
             ELSE IF values.arr[1].obj[K_type] = JStr(S_Unknown) THEN "drop"
             ELSE "keep"

\* the loop of lines 123-131 from index i on
RECURSIVE die_filter(_, _, _)
die_filter(detects, i, output) ==
    IF i > Len(detects) THEN Returned(output, <<>>)
    ELSE LET k == die_keep(detects[i])
         IN  IF k = "drop" THEN die_filter(detects, i + 1, output)
             ELSE IF k = "keep"
                  THEN die_filter(detects, i + 1, Append(output, detects[i]))
             ELSE Raised(k)

\* a variant of the two absorbed conditions that raises instead
die_soft_raises(diagnostic, sample_hash) == Raised("ValueError")

\* lines 108-112 and 117-121: log the diagnostic and return []
die_soft_result(diagnostic, sample_hash) ==
    Returned(<<>>, <<LogRecord("error", diagnostic, sample_hash)>>)

\* FileDetection.extract_json_output_from_die
extract_json_output_from_die(die_data, sample_hash) ==
    IF die_data = <<>> THEN Returned(<<>>, <<>>)
    ELSE LET json_str == brace_span(die_data)
             parsed_data == json_loads(json_str)
         IN  IF json_str = <<>> THEN die_soft_result("Could not find JSON object in DiE output",
                                                          sample_hash)
             ELSE IF ~parsed_data.ok THEN Raised("JSONDecodeError")
             ELSE IF K_detects \notin DOMAIN parsed_data.val.obj
                  THEN die_soft_result("failed running file-detection. Error code 01",
                                       sample_hash)
             ELSE LET detects == parsed_data.val.obj[K_detects]
                  IN  IF IsArr(detects) THEN die_filter(detects.arr, 1, <<>>)
                      ELSE IF IsStr(detects) \/ IsObj(detects)
                           THEN IF py_len(detects) = 0 THEN Returned(<<>>, <<>>)
                                ELSE Raised("AttributeError")
                      ELSE Raised("TypeError")

(***************************************************************************)
(* The signature detector's standard output: log text around one JSON      *)
(* object, written compactly or with white space after each delimiter      *)
(***************************************************************************)
RECURSIVE dumps(_, _)
RECURSIVE dumps_items(_, _, _)
RECURSIVE dumps_members(_, _, _)

\* json.dumps(v), with the white space sp after each delimiter
dumps(v, sp) ==
    IF IsStr(v) THEN <<Quote>> \o v.str \o <<Quote>>
    ELSE IF IsArr(v) THEN <<"[">> \o sp \o dumps_items(v.arr, 1, sp) \o <<"]">>
    ELSE <<"{">> \o sp \o dumps_members(v.obj, DOMAIN v.obj, sp) \o <<"}">>

dumps_items(a, i, sp) ==
    IF i > Len(a) THEN <<>>
    ELSE dumps(a[i], sp) \o (IF i < Len(a) THEN <<",">> ELSE <<>>) \o sp
         \o dumps_items(a, i + 1, sp)

dumps_members(f, keys, sp) ==
    IF keys = {} THEN <<>>
    ELSE LET k == CHOOSE x \in keys : TRUE
         IN  <<Quote>> \o k \o <<Quote, ":">> \o sp \o dumps(f[k], sp)
             \o (IF keys # {k} THEN <<",">> ELSE <<>>) \o sp
             \o dumps_members(f, keys \ {k}, sp)

\* {"detects": [...]}
Report(detects) == JObj(K_detects :> JArr(detects))

LogLine == <<"l","o","g","\n">>

T_NotJson == <<"n","o","t"," ","j","s","o","n">>

T_OpenOnly == <<"{"," ">>

T_CloseOpen == <<"}"," ","{">>

T_Bare == <<"{","x","}">>

T_EmptyObject == <<"{","}">>

T_Number == <<"{","\"","s","i","z","e","\"",":"," ","1","0","}">>

T_Literal == <<"{","\"","o","k","\"",":","[","t","r","u","e",",","n","u","l","l","]","}">>

\* a run of the signature detector that exited with 0: its standard output
\* and, for a report, the detects it wrote
DieRun(kind, text, detects) == [kind |-> kind, text |-> text, detects |-> detects]

\* a report of the detects between log text, with the white space sp
ReportRun(detects, pre, post, sp) ==
    DieRun("report", pre \o dumps(Report(detects), sp) \o post, detects)

\* a report of the detects, in each layout
ReportRuns(detects) ==
    {ReportRun(detects, pre, post, sp) :
        pre \in {<<>>, LogLine}, post \in {<<>>, <<"\n">> \o LogLine},
        sp \in {<<>>, <<"\n", " ">>}}

\* a report of the detects, compact and bare, or spaced between log text
TwoReportRuns(detects) ==
    {ReportRun(detects, <<>>, <<>>, <<>>),
     ReportRun(detects, LogLine, <<"\n">> \o LogLine, <<"\n", " ">>)}

\* standard output without a JSON object with detects
SoftRuns ==
    {DieRun("empty", <<>>, <<>>),
     DieRun("nospan", T_NotJson, <<>>),
     DieRun("nospan", T_OpenOnly, <<>>),
     DieRun("nospan", T_CloseOpen, <<>>),
     DieRun("nodetects", T_EmptyObject, <<>>),
     DieRun("nodetects", T_Number, <<>>),
     DieRun("nodetects", LogLine \o T_Literal, <<>>),
     DieRun("nodetects", dumps(FindingNoValues, <<" ">>), <<>>)}

\* standard output whose brace-delimited span is not JSON: a bare word, a
\* report cut short, a report followed by a further brace
MalformedRuns ==
    {DieRun("malformed", T_Bare, <<>>),
     DieRun("malformed",
            LET d == dumps(Report(<<F_PackerUPX>>), <<>>)
            IN  SubSeq(d, 1, Len(d) - 2) \o <<"}">>, <<>>),
     DieRun("malformed", dumps(Report(<<F_PackerUPX>>), <<>>) \o <<" ", "}">>, <<>>)}

(***************************************************************************)
(* Harness for extract_json_output_from_die                                *)
(***************************************************************************)
DieRuns ==
    SoftRuns \cup MalformedRuns
    \cup UNION {ReportRuns(d) : d \in SeqsUpTo(FindingPool, MaxFindings)}

InitDie ==
    /\ arg \in DieRuns
    /\ ret = <<>>
    /\ stage = "arg"
    /\ ProcIdle

\* die_json = self.extract_json_output_from_die(die_data, sample_hash)
CallExtractDie ==
    /\ stage = "arg"
    /\ ret' = <<extract_json_output_from_die(arg.text, "sha256")>>
    /\ stage' = "once"
    /\ UNCHANGED <<arg, procVars>>

NextDie == CallExtractDie

SpecDie == InitDie /\ [][NextDie]_vars

\* the values of a finding ([] without the field)
ValuesOf(detected) ==
    IF K_values \in DOMAIN detected.obj THEN detected.obj[K_values].arr ELSE <<>>

\* a finding with zero values, or with exactly one value whose type is the
\* literal "Unknown"
NonInformative(detected) ==
    \/ Len(ValuesOf(detected)) = 0
    \/ /\ Len(ValuesOf(detected)) = 1
       /\ K_type \in DOMAIN ValuesOf(detected)[1].obj
       /\ ValuesOf(detected)[1].obj[K_type].str = S_Unknown

Informative(detected) == ~NonInformative(detected)

\* C6: on a report with a detects array, extract_json_output_from_die
\* returns, without raising, exactly the entries of detects that are
\* informative, in their order and unmodified.
C6_FilterTotal ==
    stage = "once" /\ arg.kind = "report"
        => ret[1] = Returned(SelectSeq(arg.detects, Informative), <<>>)

\* the findings whose single value has no type make line 127 raise KeyError
RaisesKeyError(detected) ==
    Len(ValuesOf(detected)) = 1 /\ K_type \notin DOMAIN ValuesOf(detected)[1].obj

\* Where every finding with a single value gives it a type, the filter
\* returns the informative entries; where one does not, it raises KeyError.
DieFilterUnlessKeyError ==
    stage = "once" /\ arg.kind = "report" =>
        ret[1] = IF \E i \in DOMAIN arg.detects : RaisesKeyError(arg.detects[i])
                 THEN Raised("KeyError")
                 ELSE Returned(SelectSeq(arg.detects, Informative), <<>>)

(***************************************************************************)
(* extract_json_output_from_trid                                           *)
(***************************************************************************)
TRID_CUTOFF == 5

DigitSet == {DigitChars[i] : i \in DOMAIN DigitChars}

\* \w: letters, digits and the underscore
WordSet ==
    {UpperCase[i] : i \in DOMAIN UpperCase} \cup {LowerCase[i] : i \in DOMAIN LowerCase}
    \cup DigitSet \cup {"_"}

\* \s
ReWhiteSpace == WhiteSpace \cup {"\f"}

\* the last index of the longest run of characters of set that starts at i
\* (i - 1 when there is none)
RECURSIVE run_end(_, _, _)
run_end(s, i, set) ==
    IF i <= Len(s) /\ s[i] \in set THEN run_end(s, i + 1, set) ELSE i - 1

\* the last index of the longest run without "\n" that starts at i
RECURSIVE line_end(_, _)
line_end(s, i) ==
    IF i <= Len(s) /\ s[i] # "\n" THEN line_end(s, i + 1) ELSE i - 1

At(s, i, c) == i <= Len(s) /\ s[i] = c

NoMatch == [ok |-> FALSE, percent |-> <<>>, ext |-> <<>>, name |-> <<>>, next |-> 0]

\* pattern.match at index i of (\d+(?:\.\d+)?)%\s+\((\.\w+)\)\s+(.+):
\* greedy, giving back white space to (.+) where nothing else is left
try_match(s, i) ==
    LET p == run_end(s, i, DigitSet)
        f == run_end(s, p + 2, DigitSet)
        q == IF At(s, p + 1, ".") /\ f >= p + 2 /\ At(s, f + 1, "%") THEN f ELSE p
        w1 == run_end(s, q + 2, ReWhiteSpace)
        e == run_end(s, w1 + 3, WordSet)
        w2 == run_end(s, e + 2, ReWhiteSpace)
        starts == {t \in (e + 3)..(w2 + 1) : t <= Len(s) /\ s[t] # "\n"}
        t == CHOOSE x \in starts : \A y \in starts : y <= x
    IN  IF /\ p >= i
           /\ At(s, q + 1, "%")
           /\ w1 >= q + 2
           /\ At(s, w1 + 1, "(") /\ At(s, w1 + 2, ".")
           /\ e >= w1 + 3
           /\ At(s, e + 1, ")")
           /\ w2 >= e + 2
           /\ starts # {}
        THEN [ok |-> TRUE, percent |-> SubSeq(s, i, q), ext |-> SubSeq(s, w1 + 2, e),
              name |-> SubSeq(s, t, line_end(s, t)), next |-> line_end(s, t) + 1]
        ELSE NoMatch

\* pattern.findall(trid_data) from index i on: leftmost, non-overlapping
RECURSIVE findall(_, _, _)
findall(s, i, acc) ==
    IF i > Len(s) THEN acc
    ELSE LET m == try_match(s, i)
         IN  IF m.ok THEN findall(s, m.next, Append(acc, m))
             ELSE findall(s, i + 1, acc)

\* a float with a short decimal expansion: units / 10^e, in lowest terms
RECURSIVE Float(_, _)
Float(units, e) ==
    IF e > 0 /\ units % 10 = 0 THEN Float(units \div 10, e - 1)
    ELSE [units |-> units, e |-> e]

RECURSIVE Pow10(_)
Pow10(e) == IF e = 0 THEN 1 ELSE 10 * Pow10(e - 1)

\* a > n for a float a and an int n
float_gt(a, n) == a.units > n * Pow10(a.e)

\* float(percent) of digits with an optional fraction
py_float(percent) ==
    LET p == run_end(percent, 1, DigitSet)
        digits == SubSeq(percent, 1, p) \o Drop(percent, p + 2)
    IN  Float(parse_digits(digits, 1, 0).val.num,
              IF p < Len(percent) THEN Len(percent) - p - 1 ELSE 0)

\* str.strip()
strip(s) ==
    LET keep == {i \in DOMAIN s : s[i] \notin ReWhiteSpace}
    IN  IF keep = {} THEN <<>>
        ELSE SubSeq(s, CHOOSE i \in keep : \A j \in keep : i <= j,
                       CHOOSE i \in keep : \A j \in keep : i >= j)

\* the dict built at lines 159-163 for one match
trid_entry(m) ==
    [percentage |-> py_float(m.percent), extension |-> m.ext, name |-> strip(m.name)]

\* the condition at line 165
above_cutoff(m) == float_gt(py_float(m.percent), TRID_CUTOFF)

\* the comprehension of lines 158-166, before [::-1]
RECURSIVE trid_entries(_, _)
trid_entries(matches, i) ==
    IF i > Len(matches) THEN <<>>
    ELSE (IF above_cutoff(matches[i]) THEN <<trid_entry(matches[i])>> ELSE <<>>)
         \o trid_entries(matches, i + 1)

\* FileDetection.extract_json_output_from_trid
extract_json_output_from_trid(trid_data, sample_hash) ==
    IF trid_data = <<>> THEN Returned(<<>>, <<>>)
    ELSE LET matches == findall(trid_data, 1, <<>>)
         IN  IF matches = <<>>
             THEN Returned(<<>>,
                      <<LogRecord("error", "Could not find JSON object in TrID output",
                                  sample_hash)>>)
             ELSE Returned(Reverse(trid_entries(matches, 1)), <<>>)

(***************************************************************************)
(* The heuristic detector's standard output: lines of text.  A sample line *)
(* carries what the pattern finds on it when the line is scanned alone.    *)
(***************************************************************************)
L_80 ==
    [text |-> <<"8","0",".","0","%"," ","(",".","e","x","e",")"," ","W","i","n","3","2"," ","E","x","e">>,
     matches |-> TRUE, percentage |-> Float(80, 0),
     extension |-> <<".","e","x","e">>, name |-> <<"W","i","n","3","2"," ","E","x","e">>]

L_3 ==
    [text |-> <<" ","3",".","0","%"," ","(",".","b","i","n",")"," ","G","e","n","e","r","i","c">>,
     matches |-> TRUE, percentage |-> Float(3, 0),
     extension |-> <<".","b","i","n">>, name |-> <<"G","e","n","e","r","i","c">>]

L_5_0 ==
    [text |-> <<"5",".","0","%"," ","(",".","a",")"," ","X">>,
     matches |-> TRUE, percentage |-> Float(5, 0),
     extension |-> <<".","a">>, name |-> <<"X">>]

L_5 ==
    [text |-> <<"5","%"," ","(",".","b","_","1",")"," ","Y"," ","(","1","/","1",")">>,
     matches |-> TRUE, percentage |-> Float(5, 0),
     extension |-> <<".","b","_","1">>, name |-> <<"Y"," ","(","1","/","1",")">>]

L_5_1 ==
    [text |-> <<"5",".","1","%"," ","(",".","C",")"," ","Z">>,
     matches |-> TRUE, percentage |-> Float(51, 1),
     extension |-> <<".","C">>, name |-> <<"Z">>]

L_6 ==
    [text |-> <<"x","6","%","\t"," ","(",".","d",")"," "," ","W"," ">>,
     matches |-> TRUE, percentage |-> Float(6, 0),
     extension |-> <<".","d">>, name |-> <<"W">>]

L_Header ==
    [text |-> <<"T","r","I","D"," ","-"," ","1",".","2",".","3","%">>,
     matches |-> FALSE, percentage |-> Float(0, 0),
     extension |-> <<>>, name |-> <<>>]

L_NoDot ==
    [text |-> <<"1","2","%"," ","(","e","x","e",")"," ","V">>,
     matches |-> FALSE, percentage |-> Float(0, 0),
     extension |-> <<>>, name |-> <<>>]

L_Blank ==
    [text |-> <<>>,
     matches |-> FALSE, percentage |-> Float(0, 0),
     extension |-> <<>>, name |-> <<>>]

L_PercentOnly ==
    [text |-> <<"7","0","%">>,
     matches |-> FALSE, percentage |-> Float(0, 0),
     extension |-> <<>>, name |-> <<>>]

L_ExtensionOnly ==
    [text |-> <<"(",".","e",")"," ","U">>,
     matches |-> FALSE, percentage |-> Float(0, 0),
     extension |-> <<>>, name |-> <<>>]

LinePool ==
    {L_80, L_3, L_5_0, L_5, L_5_1, L_6, L_Header, L_NoDot, L_Blank,
     L_PercentOnly, L_ExtensionOnly}

\* the report made of the lines, each ended by a newline
RECURSIVE join_lines(_, _)
join_lines(lines, i) ==
    IF i > Len(lines) THEN <<>>
    ELSE lines[i].text \o <<"\n">> \o join_lines(lines, i + 1)

TridRun(lines) == [lines |-> lines, text |-> join_lines(lines, 1)]

(***************************************************************************)
(* Harness for extract_json_output_from_trid: every report of at most      *)
(* MaxLines sample lines                                                   *)
(***************************************************************************)
MaxLines == 2

InitTrid ==
    /\ arg \in {TridRun(l) : l \in SeqsUpTo(LinePool, MaxLines)}
    /\ ret = <<>>
    /\ stage = "arg"
    /\ ProcIdle

\* trid_json = self.extract_json_output_from_trid(trid_data, sample_hash)
CallExtractTrid ==
    /\ stage = "arg"
    /\ ret' = <<extract_json_output_from_trid(arg.text, "sha256")>>
    /\ stage' = "once"
    /\ UNCHANGED <<arg, procVars>>

NextTrid == CallExtractTrid

SpecTrid == InitTrid /\ [][NextTrid]_vars

\* the entry of a matching line
LineEntry(l) == [percentage |-> l.percentage, extension |-> l.extension, name |-> l.name]

\* a matching line above the cutoff
Qualifies(l) == l.matches /\ float_gt(l.percentage, TRID_CUTOFF)

\* the entries of the qualifying lines, in the lines' order
RECURSIVE QualifyingEntries(_, _)
QualifyingEntries(lines, i) ==
    IF i > Len(lines) THEN <<>>
    ELSE (IF Qualifies(lines[i]) THEN <<LineEntry(lines[i])>> ELSE <<>>)
         \o QualifyingEntries(lines, i + 1)

\* C7: extract_json_output_from_trid returns one entry per matching line
\* above the cutoff 5.0, none for a line at or below it, in the reverse of
\* the lines' order.
C7_PerLineReversed ==
    stage = "once" => ret[1].value = Reverse(QualifyingEntries(arg.lines, 1))

\* after line i come blank lines, if any, and then a line that starts with
\* an extension and a description
RECURSIVE ExtensionFollows(_, _)
ExtensionFollows(lines, i) ==
    /\ i + 1 \in DOMAIN lines
    /\ \/ lines[i + 1] = L_ExtensionOnly
       \/ lines[i + 1] = L_Blank /\ ExtensionFollows(lines, i + 1)

\* a percentage at the end of line i and the extension on a later line: the
\* pattern's white space takes the line breaks between them
SpansLines(lines, i) == lines[i] = L_PercentOnly /\ ExtensionFollows(lines, i)

\* Where no match spans a line break, the entries are those of the matching
\* lines above the cutoff, last line first.
TridPerLineUnlessSpanning ==
    stage = "once" /\ (\A i \in DOMAIN arg.lines : ~SpansLines(arg.lines, i)) =>
        ret[1].value = Reverse(QualifyingEntries(arg.lines, 1))

(***************************************************************************)
(* The content classifier: Magika().identify_path and lines 187-193        *)
(***************************************************************************)
IsLetter(c) == IsUpper(c) \/ IsLower(c)

\* str.title()
title(s) ==
    [i \in 1..Len(s) |->
        IF i = 1 \/ ~IsLetter(s[i - 1]) THEN upper_char(s[i]) ELSE lower_char(s[i])]

\* round(score * 100, 2) of a score given in units of 1/100000: the
\* percentage in hundredths.  A tie (a last digit 5) is decided by the binary
\* value of the float; the sample scores have none.
py_round_percent(score) ==
    LET q == score \div 10
        r == score % 10
    IN  Float(IF r >= 5 THEN q + 1 ELSE q, 2)

\* lines 187-193: the one-element list built from the classifier's result
magika_record(magika_data) ==
    <<[label |-> title(magika_data.label),
       description |-> magika_data.description,
       extensions |-> magika_data.extensions,
       group |-> magika_data.group,
       score |-> py_round_percent(magika_data.score)]>>

M_Pebin ==
    [raises |-> FALSE, label |-> <<"p","e","b","i","n">>, description |-> "PE Windows executable",
     extensions |-> <<"exe", "dll">>, group |-> "executable", score |-> 99987]

M_Unknown ==
    [raises |-> FALSE, label |-> S_unknown, description |-> "Unknown binary data",
     extensions |-> <<>>, group |-> "unknown", score |-> 33337]

M_Raises ==
    [raises |-> TRUE, label |-> <<>>, description |-> "",
     extensions |-> <<>>, group |-> "", score |-> 0]

(***************************************************************************)
(* Tasks: the sample and what the environment does for it                  *)
(***************************************************************************)
\* a run of a detector subprocess: the exception check_output raises
\* ("none": exit status 0) and the run's standard output
Exec(exc, run) == [exc |-> exc, run |-> run]

TaskDie ==
    {Exec("CalledProcessError", DieRun("empty", <<>>, <<>>)),
     Exec("FileNotFoundError", DieRun("empty", <<>>, <<>>)),
     Exec("UnicodeDecodeError", DieRun("empty", <<>>, <<>>)),
     Exec("none", DieRun("empty", <<>>, <<>>)),
     Exec("none", DieRun("nospan", T_NotJson, <<>>)),
     Exec("none", DieRun("nodetects", T_EmptyObject, <<>>)),
     Exec("none", DieRun("malformed", T_Bare, <<>>))}
    \cup {Exec("none", r) :
            r \in TwoReportRuns(<<F_PackerUPX>>)
                  \cup TwoReportRuns(<<F_UnknownUPX, F_Empty>>)
                  \cup TwoReportRuns(<<F_NoType>>)
                  \cup TwoReportRuns(<<F_Two, FindingNoValues, F_MalwareEmotet>>)}

TaskTrid ==
    {Exec("CalledProcessError", TridRun(<<>>)),
     Exec("none", TridRun(<<>>)),
     Exec("none", TridRun(<<L_Header>>)),
     Exec("none", TridRun(<<L_3, L_5_0>>)),
     Exec("none", TridRun(<<L_3, L_80, L_Blank, L_6>>))}

TaskMagika == {M_Pebin, M_Unknown, M_Raises}

\* the sample resource of a task; sha256 is "" where the resource has none
Samples == {[sha256 |-> "5e884898", name |-> "sample.exe"],
            [sha256 |-> "", name |-> "sample.exe"]}

NewTask(sample, download, die, trid, magika) ==
    [sample |-> sample, download |-> download, die |-> die, trid |-> trid,
     magika |-> magika]

\* the tasks whose sample downloads, and those whose download fails
Tasks ==
    {NewTask(s, "ok", d, t, m) :
        s \in Samples, d \in TaskDie, t \in TaskTrid, m \in TaskMagika}
    \cup {NewTask(s, "IOError", Exec("none", DieRun("empty", <<>>, <<>>)),
                  Exec("none", TridRun(<<>>)), M_Pebin) : s \in Samples}

\* sample_resource.sha256 or sample_resource.name, lines 183 and 185
sample_hash_of(sample_resource) ==
    IF sample_resource.sha256 # "" THEN sample_resource.sha256 ELSE sample_resource.name

(***************************************************************************)
(* process()                                                               *)
(***************************************************************************)
Fail(at, exc) == [at |-> at, exc |-> exc]

Invoked(tool) == [tool |-> tool, held |-> held]

\* a variant of the order of lines 182-186 that classifies before it runs
\* the heuristic detector
next_step_swapped(step) ==
    CASE step = "enter" -> "die_call"
      [] step = "die_call" -> "die_extract"
      [] step = "die_extract" -> "magika"
      [] step = "magika" -> "trid_call"
      [] step = "trid_call" -> "trid_extract"
      [] step = "trid_extract" -> "exit"

\* the order of the statements of the with block, lines 181-193
next_step(step) ==
    CASE step = "enter" -> "die_call"
      [] step = "die_call" -> "die_extract"
      [] step = "die_extract" -> "trid_call"
      [] step = "trid_call" -> "trid_extract"
      [] step = "trid_extract" -> "magika"
      [] step = "magika" -> "exit"

\* a variant of the with statement that closes the file only when the
\* block ends without an exception
held_after_exit_leaks(step) == step = "unwind"

\* the temporary file after __exit__ of the with statement, line 181: gone,
\* however the block ended
held_after_exit(step) == FALSE

\* a variant that swallows the exception of the with block
after_exit_swallows(step) == "check"

\* where process() goes after the with block, line 181: on, or out with
\* the exception the block raised
after_exit(step) == IF step = "unwind" THEN "failed" ELSE "check"

\* a variant of line 197 that forgets the classifier
nothing_found_but_magika(die, trid, magika) == die = <<>> /\ trid = <<>>

\* line 197: not die_json and not trid_json and not magika_json
nothing_found(die, trid, magika) == die = <<>> /\ trid = <<>> /\ magika = <<>>

\* a variant of lines 207-211 with the die and trid attributes exchanged
analysis_task_swapped(sample, tags, die, trid, magika) ==
    [headers |-> [type |-> "sample", stage |-> "analyzed"],
     payload |-> [sample |-> sample, tags |-> tags,
                  attributes |-> [die |-> trid, trid |-> die, magika |-> magika]]]

\* the Task of lines 202-213
analysis_task(sample, tags, die, trid, magika) ==
    [headers |-> [type |-> "sample", stage |-> "analyzed"],
     payload |-> [sample |-> sample, tags |-> tags,
                  attributes |-> [die |-> die, trid |-> trid, magika |-> magika]]]

\* the service consumes a task: process(task) starts, line 178-180
Receive ==
    /\ pc \in {"idle", "done", "failed"}
    /\ task' \in Tasks
    /\ pc' = "enter"
    /\ held' = FALSE
    /\ err' = NoError
    /\ calls' = <<>>
    /\ die_stdout' = <<>>
    /\ die_json' = <<>>
    /\ trid_stdout' = <<>>
    /\ trid_json' = <<>>
    /\ magika_json' = <<>>
    /\ log' = <<>>
    /\ outbox' = <<>>
    /\ UNCHANGED helperVars

\* line 181: with sample_resource.download_temporary_file() as f
EnterWith ==
    /\ pc = "enter"
    /\ IF task.download = "ok"
       THEN /\ held' = TRUE
            /\ pc' = next_step("enter")
            /\ err' = err
       ELSE /\ held' = FALSE
            /\ pc' = "failed"
            /\ err' = Fail("enter", task.download)
    /\ UNCHANGED <<helperVars, task, calls, die_stdout, die_json, trid_stdout,
                   trid_json, magika_json, log, outbox>>

\* line 182: die_data = subprocess.check_output([diec, ...]).decode("utf-8")
InvokeDie ==
    /\ pc = "die_call"
    /\ calls' = Append(calls, Invoked("die"))
    /\ IF task.die.exc = "none"
       THEN /\ die_stdout' = task.die.run.text
            /\ pc' = next_step("die_call")
            /\ err' = err
       ELSE /\ die_stdout' = die_stdout
            /\ pc' = "unwind"
            /\ err' = Fail("die_call", task.die.exc)
    /\ UNCHANGED <<helperVars, task, held, die_json, trid_stdout, trid_json,
                   magika_json, log, outbox>>

\* line 183: die_json = self.extract_json_output_from_die(die_data, ...)
ExtractDie ==
    /\ pc = "die_extract"
    /\ LET r == extract_json_output_from_die(die_stdout, sample_hash_of(task.sample))
       IN  /\ log' = log \o r.log
           /\ IF r.raised = "none"
              THEN /\ die_json' = r.value
                   /\ pc' = next_step("die_extract")
                   /\ err' = err
              ELSE /\ die_json' = die_json
                   /\ pc' = "unwind"
                   /\ err' = Fail("die_extract", r.raised)
    /\ UNCHANGED <<helperVars, task, held, calls, die_stdout, trid_stdout,
                   trid_json, magika_json, outbox>>

\* line 184: trid_data = subprocess.check_output([trid, f.name]).decode("utf-8")
InvokeTrid ==
    /\ pc = "trid_call"
    /\ calls' = Append(calls, Invoked("trid"))
    /\ IF task.trid.exc = "none"
       THEN /\ trid_stdout' = task.trid.run.text
            /\ pc' = next_step("trid_call")
            /\ err' = err
       ELSE /\ trid_stdout' = trid_stdout
            /\ pc' = "unwind"
            /\ err' = Fail("trid_call", task.trid.exc)
    /\ UNCHANGED <<helperVars, task, held, die_stdout, die_json, trid_json,
                   magika_json, log, outbox>>

\* line 185: trid_json = self.extract_json_output_from_trid(trid_data, ...)
ExtractTrid ==
    /\ pc = "trid_extract"
    /\ LET r == extract_json_output_from_trid(trid_stdout, sample_hash_of(task.sample))
       IN  /\ log' = log \o r.log
           /\ IF r.raised = "none"
              THEN /\ trid_json' = r.value
                   /\ pc' = next_step("trid_extract")
                   /\ err' = err
              ELSE /\ trid_json' = trid_json
                   /\ pc' = "unwind"
                   /\ err' = Fail("trid_extract", r.raised)
    /\ UNCHANGED <<helperVars, task, held, calls, die_stdout, die_json,
                   trid_stdout, magika_json, outbox>>

\* lines 186-193: magika_data = Magika().identify_path(f.name); magika_json
IdentifyMagika ==
    /\ pc = "magika"
    /\ calls' = Append(calls, Invoked("magika"))
    /\ IF task.magika.raises
       THEN /\ magika_json' = magika_json
            /\ pc' = "unwind"
            /\ err' = Fail("magika", "Exception")
       ELSE /\ magika_json' = magika_record(task.magika)
            /\ pc' = next_step("magika")
            /\ err' = err
    /\ UNCHANGED <<helperVars, task, held, die_stdout, die_json, trid_stdout,
                   trid_json, log, outbox>>

\* the end of the with block, by its last statement or by an exception:
\* __exit__ removes the temporary file
ExitWith ==
    /\ pc \in {"exit", "unwind"}
    /\ held' = held_after_exit(pc)
    /\ pc' = after_exit(pc)
    /\ UNCHANGED <<helperVars, task, err, calls, die_stdout, die_json,
                   trid_stdout, trid_json, magika_json, log, outbox>>

\* lines 195-215: return when nothing was found, else send the task
SendOrDrop ==
    /\ pc = "check"
    /\ IF nothing_found(die_json, trid_json, magika_json)
       THEN /\ outbox' = outbox
            /\ log' = Append(log, LogRecord("info", "Successfully perform DiE, TrID, and Magika",
                                            task.sample.sha256))
       ELSE /\ outbox' = Append(outbox,
                   analysis_task(task.sample, get_tags_from_die(die_json), die_json,
                                 trid_json, magika_json))
            /\ log' = log \o
                   <<LogRecord("info", "Successfully perform DiE, TrID, and Magika",
                               task.sample.sha256),
                     LogRecord("info", "Successfully pushed DiE, TrID, and Magika data",
                               task.sample.sha256)>>
    /\ pc' = "done"
    /\ UNCHANGED <<helperVars, task, held, err, calls, die_stdout, die_json,
                   trid_stdout, trid_json, magika_json>>

Init ==
    /\ arg = <<>>
    /\ ret = <<>>
    /\ stage = "process"
    /\ ProcIdle

Next ==
    \/ Receive
    \/ EnterWith
    \/ InvokeDie
    \/ ExtractDie
    \/ InvokeTrid
    \/ ExtractTrid
    \/ IdentifyMagika
    \/ ExitWith
    \/ SendOrDrop

Spec == Init /\ [][Next]_vars

(***************************************************************************)
(* Properties of process()                                                 *)
(***************************************************************************)
DetectorOrder == <<"die", "trid", "magika">>

WasInvoked(tool) == \E i \in DOMAIN calls : calls[i].tool = tool

Attributes == outbox[1].payload.attributes

\* the signature detector ran and its output has no brace-delimited span or
\* its JSON has no detects
DieSoft == task.die.exc = "none" /\ task.die.run.kind \in {"nospan", "nodetects"}

\* the heuristic detector ran and no line of its text matches
TridSoft ==
    /\ task.trid.exc = "none"
    /\ task.trid.run.lines # <<>>
    /\ \A i \in DOMAIN task.trid.run.lines : ~task.trid.run.lines[i].matches

\* what the task's detectors contribute when they run
DieContribution == SelectSeq(task.die.run.detects, Informative)

TridContribution == Reverse(QualifyingEntries(task.trid.run.lines, 1))

C2_NoMessageAfterFatalError ==
    /\ err # NoError => outbox = <<>> /\ pc \in {"unwind", "failed"}
    /\ pc = "failed" => err # NoError
    /\ WasInvoked("die") /\ task.die.exc # "none" => err = Fail("die_call", task.die.exc)
    /\ WasInvoked("trid") /\ task.trid.exc # "none" => err = Fail("trid_call", task.trid.exc)
    /\ /\ WasInvoked("die") /\ pc # "die_extract"
       /\ task.die.exc = "none" /\ task.die.run.kind = "malformed"
       => err = Fail("die_extract", "JSONDecodeError")

\* process() has raised the JSON error of a malformed span and sent nothing
C2_Witness ==
    /\ pc = "failed"
    /\ task.die.run.kind = "malformed"
    /\ err = Fail("die_extract", "JSONDecodeError")
    /\ outbox = <<>>

\* C3: a signature detector output without a brace-delimited span or without
\* detects, and a heuristic detector text without a matching line, give the
\* empty list without an exception; process() goes on to the remaining
\* detectors and, when these do not fail, sends the message with their
\* contributions.
C3_SoftConditionsAbsorbed ==
    /\ WasInvoked("die") /\ pc # "die_extract" /\ DieSoft =>
          /\ die_json = <<>>
          /\ err.at \notin {"die_call", "die_extract"}
          /\ pc = "trid_call" \/ WasInvoked("trid")
    /\ WasInvoked("trid") /\ pc # "trid_extract" /\ TridSoft =>
          /\ trid_json = <<>>
          /\ err.at \notin {"trid_call", "trid_extract"}
          /\ pc = "magika" \/ WasInvoked("magika")
    /\ pc = "done" /\ (DieSoft \/ TridSoft) =>
          /\ Len(outbox) = 1
          /\ Attributes.die = IF DieSoft THEN <<>> ELSE DieContribution
          /\ Attributes.trid = IF TridSoft THEN <<>> ELSE TridContribution
          /\ Attributes.magika = magika_record(task.magika)

\* the signature detector's JSON had no detects; the message sent carries
\* the two entries of the heuristic detector and the classifier's record
C3_Witness ==
    /\ pc = "done"
    /\ task.die.run.kind = "nodetects"
    /\ Len(outbox) = 1
    /\ Attributes.die = <<>>
    /\ Len(Attributes.trid) = 2
    /\ Len(Attributes.magika) = 1

\* the case of C4: one informative finding, no entry of the heuristic
\* detector, a classifier that does not recognise the sample
OneFindingOthersEmpty ==
    /\ pc = "done"
    /\ task.die.run.kind = "report" /\ Len(DieContribution) = 1
    /\ TridContribution = <<>>
    /\ task.magika.label = S_unknown

C9_TemporaryFileReleased ==
    /\ pc \in {"idle", "enter", "check", "done", "failed"} => ~held
    /\ pc \in {"die_call", "die_extract", "trid_call", "trid_extract", "magika",
               "exit", "unwind"} => held
    /\ \A i \in DOMAIN calls : calls[i].held

\* process() has raised the classifier's error after all three detectors
\* were invoked, and the file is gone
C9_Witness ==
    /\ pc = "failed"
    /\ err.at = "magika"
    /\ Len(calls) = 3
    /\ ~held

\* C10: the detectors are invoked in the order signature detector,
\* heuristic detector, classifier, each at most once, a later one only after
\* the earlier ones completed without error, none after a fatal failure, and
\* a message is sent only after all three.
C10_DetectorsInOrder ==
    /\ Len(calls) <= Len(DetectorOrder)
    /\ \A i \in DOMAIN calls : calls[i].tool = DetectorOrder[i]
    /\ Len(calls) >= 2 =>
          /\ task.die.exc = "none"
          /\ err.at \notin {"die_call", "die_extract"}
          /\ die_json = extract_json_output_from_die(task.die.run.text, "").value
    /\ Len(calls) = 3 =>
          /\ task.trid.exc = "none"
          /\ err.at \notin {"trid_call", "trid_extract"}
          /\ trid_json = extract_json_output_from_trid(task.trid.run.text, "").value
    /\ err.at \in {"die_call", "die_extract"} => Len(calls) = 1
    /\ err.at \in {"trid_call", "trid_extract"} => Len(calls) = 2
    /\ outbox # <<>> => Len(calls) = 3 /\ err = NoError /\ pc = "done"

\* a message was sent, after the three detectors were invoked in order
C10_Witness ==
    /\ pc = "done"
    /\ Len(outbox) = 1
    /\ [i \in DOMAIN calls |-> calls[i].tool] = DetectorOrder
    /\ die_json # <<>> /\ trid_json # <<>>

====
